---------------------------- MODULE Spec2Model ----------------------------
(***************************************************************************)
(* JCMS: the JNI binding of the lcms2 colour-management library            *)
(* (src/jni/cpp/jcms.cpp).  The model has three parts:                     *)
(*   - the Java runtime the binding talks to through JNIEnv (arrays on the *)
(*     Java heap, native buffer views handed out by Get...Elements /       *)
(*     GetStringUTFChars, a pending exception);                            *)
(*   - the lcms2 library behind the opaque handles (live profiles,         *)
(*     transforms and tone curves);                                        *)
(*   - the nine native methods, one action per statement, pc holding the   *)
(*     source line about to execute.                                       *)
(* Integer types keep their signedness; their widths are scaled down       *)
(* (SizeBits for the 32-bit jsize / jint / cmsUInt32Number, HandleBits for *)
(* jlong and the native pointer of an LP64 build).                         *)
(* Runtime calls are taken not to run out of memory: NewByteArray of a     *)
(* non-negative size, Get...Elements of a live array and GetStringUTFChars *)
(* succeed.                                                                *)
(***************************************************************************)
EXTENDS Integers, Sequences, FiniteSets, TLC

\* ----------------------------------------------------------------- bounds
\* Scaled width of jsize, jint and cmsUInt32Number (32 in the build).
SizeBits == 3
\* Scaled width of jlong and of a native pointer (64 in an LP64 build).
HandleBits == 3
\* Java array references that can be live at once.
MaxRefs == 3
\* Profiles the library holds open at once.
MaxProfiles == 2
\* Transforms the library holds at once.
MaxTransforms == 1

\* ------------------------------------------------------ program constants
\* char textBuffer[512]
TextBufferSize == 512
\* cmsBuildGamma(0, gamma)
GammaType == 0
\* JNI_ABORT: free the view, copy nothing back.
ReleaseMode_Abort == 1 + 1
\* ReleaseByteArrayElements(..., 0): copy back and free the view
ReleaseMode == 0
\* NewByteArray(0)
EmptyLength == 0

RECURSIVE Pow2(_)
Pow2(n) == IF n = 0 THEN 1 ELSE 2 * Pow2(n - 1)

Min(a, b) == IF a < b THEN a ELSE b

\* ------------------------------------------------------------ conversions
\* (jsize) size : cmsUInt32Number -> signed int of the same width
ToJsize(u) == IF u >= Pow2(SizeBits - 1) THEN u - Pow2(SizeBits) ELSE u

\* (cmsUInt32Number) size : jsize / jint -> unsigned int of the same width
ToUInt32(s) == s % Pow2(SizeBits)

\* The handle kept in an integer narrower than the pointer.
PtrToJlong_Narrowed(p) == p % Pow2(HandleBits - 1)

\* (jlong) hProfile : native pointer -> signed 64-bit integer
PtrToJlong(p) == IF p >= Pow2(HandleBits - 1) THEN p - Pow2(HandleBits) ELSE p

\* (void*) hprofile : signed 64-bit integer -> native pointer
JlongToPtr(j) == j % Pow2(HandleBits)

Jlongs == (0 - Pow2(HandleBits - 1)) .. (Pow2(HandleBits - 1) - 1)

\* ------------------------------------------------------------- the library
\* Addresses the library's allocator hands out: low, sign bit set, all ones.
Addresses == {1, Pow2(HandleBits - 1), Pow2(HandleBits) - 1}

Bytes == {0, 1, 2}

\* The library parses a buffer as a profile when it starts with the signature.
Signature == 1
Parsable(bytes) == Len(bytes) >= 1 /\ bytes[1] = Signature

\* A parsed profile carries a description tag when a second byte is there.
HasDescription(bytes) == Len(bytes) >= 2

\* A valid ICC profile parses and carries the required description tag.
ValidICC(bytes) == Parsable(bytes) /\ HasDescription(bytes)

\* Length of the description text the tag byte stands for: empty, exactly
\* filling the buffer, or longer than the buffer.
DescLength(b) ==
    CASE b = 0 -> 0
      [] b = 1 -> TextBufferSize - 1
      [] OTHER -> TextBufferSize + b

\* The description text of a profile: the first len characters of text id.
Description(bytes) == [id |-> bytes[2], len |-> DescLength(bytes[2])]

\* A profile as the library holds it: the bytes it parsed, the size of its
\* serialisation, whether it was opened from memory.
NoProfile == [bytes |-> <<>>, size |-> 0, mem |-> FALSE, live |-> FALSE]
Profile(bytes, size, mem) ==
    [bytes |-> bytes, size |-> size, mem |-> mem, live |-> TRUE]

\* Profiles a file can hold: an ordinary one, and one whose serialisation is
\* too large for a jsize.
FileProfiles ==
    { Profile(<<Signature, 0>>, 2, FALSE),
      Profile(<<Signature, 2>>, Pow2(SizeBits - 1), FALSE) }

\* The library's built-in profiles carry the library's own description;
\* the gamma shapes the gray profile's curve, not its description.
sRGBProfile == Profile(<<Signature, 1>>, 2, FALSE)

GrayProfile(gamma) == Profile(<<Signature, 1>>, 2, FALSE)

\* What the transform does to one sample.
TransformByte(b) == (b + 1) % 3

\* ------------------------------------------------------------ the runtime
NullRef == 0
NullPtr == 0
Refs == 1 .. MaxRefs

\* A description the caller has not got.
NoText == [id |-> 0 - 1, len |-> 0 - 1]

\* A Java byte array; from is the profile it was saved from, if any, with the
\* description the caller had got for that profile.
NoSource == [bytes |-> <<>>, mem |-> FALSE, text |-> NoText]
SourceOf(prof, text) == [bytes |-> prof.bytes, mem |-> prof.mem, text |-> text]
NoArray == [live |-> FALSE, data |-> <<>>, from |-> NoSource]
NewArray(bytes) == [live |-> TRUE, data |-> bytes, from |-> NoSource]

\* Buffers the Java caller builds.
CallerBuffers == { <<>>, <<0>>, <<Signature>>, <<Signature, 0>>, <<Signature, 2>> }

\* Where the first NUL lies in an uninitialised stack buffer: at its start,
\* inside it, in its last byte, or nowhere inside it.
GarbageNul == {0, 7, TextBufferSize - 1, TextBufferSize}
GarbageId == 0 - 1

VARIABLES
    pc,         \* "idle", "crashed", or the source line about to execute
    op,         \* the native method running, or the last one that returned
    frame,      \* its arguments and locals
    ret,        \* the value the last native method returned to Java
    calls,      \* the runtime and library calls of the current native method
    heap,       \* Java byte arrays: reference -> array
    views,      \* native buffer views acquired by the current native method
    pending,    \* the pending Java exception, "none" when there is none
    profiles,   \* the library's profiles: address -> profile
    transforms, \* addresses of the library's live transforms
    curves,     \* addresses of the library's live tone curves
    trip        \* the caller's round trip: the profile it got a description
                \* for ("described"), or the profile it opened from that
                \* profile's saved bytes ("reopened"), and the description

vars == <<pc, op, frame, ret, calls, heap, views, pending, profiles,
          transforms, curves, trip>>

NoTrip == [stage |-> "none", p |-> 0, mem |-> FALSE, text |-> NoText]

\* The arguments and locals of the native methods, under their names in the
\* source, and what an observer of the call notes: whether dataBuffer went
\* through delete, the bytes the library was handed (seen), the input before
\* the transform and the output the library wrote.
NoFrame ==
    [filename |-> 0, mode |-> 0, strFilename |-> 0, strMode |-> 0,
     hProfile |-> 0, dataBuffer |-> 0, data |-> 0, size |-> 0,
     hprofile |-> 0, textBuffer |-> [nul |-> 0, id |-> 0],
     hInputProfile |-> 0, hOutputProfile |-> 0, inputType |-> 0,
     outputType |-> 0, intent |-> 0, flags |-> 0, hTransform |-> 0,
     inputBuffer |-> 0, outputBuffer |-> 0, input |-> 0, output |-> 0,
     gamma |-> 0, GammaCurve |-> 0,
     deleted |-> FALSE, seen |-> <<>>, before |-> <<>>, wrote |-> <<>>]

NoRet == [k |-> "none", v |-> 0]

Ev(f, a, b, r) == [f |-> f, a |-> a, b |-> b, r |-> r]

Init ==
    /\ pc = "idle"
    /\ op = "none"
    /\ frame = NoFrame
    /\ ret = NoRet
    /\ calls = <<>>
    /\ heap = [r \in Refs |-> NoArray]
    /\ views = <<>>
    /\ pending = "none"
    /\ profiles = [a \in Addresses |-> NoProfile]
    /\ transforms = {}
    /\ curves = {}
    /\ trip = NoTrip

LiveProfiles == {a \in Addresses : profiles[a].live}
FreeAddresses == Addresses \ (LiveProfiles \cup transforms \cup curves)
\* The address the library's allocator hands out next, if it has one left.
Fresh == {a \in FreeAddresses : \A b \in FreeAddresses : a >= b}
LiveRefs == {r \in Refs : heap[r].live}
FreeRefs == Refs \ LiveRefs

\* Handles a caller holds: null, or one the binding returned and is live.
ProfileHandles == {0} \cup {PtrToJlong(a) : a \in LiveProfiles}
TransformHandles == {0} \cup {PtrToJlong(a) : a \in transforms}

\* ------------------------------------------------- runtime (JNIEnv) calls
Strings == {1, 2}

\* A view as Get...Elements / GetStringUTFChars hands it out: a copy of the
\* array's (string's) contents, or the array's own storage (copy = FALSE).
NewView(kind, ref, copy) ==
    [kind |-> kind, ref |-> ref, copy |-> copy,
     data |-> IF kind = "bytes" /\ copy THEN heap[ref].data ELSE <<>>,
     rel |-> 0]

\* The bytes native code sees through view p.
ViewData(p) == IF views[p].copy THEN views[p].data ELSE heap[views[p].ref].data

\* Native code stores bytes through view p.
ViewsAfterWrite(p, bytes) ==
    IF views[p].copy THEN [views EXCEPT ![p].data = bytes] ELSE views
HeapAfterWrite(p, bytes) ==
    IF views[p].copy THEN heap ELSE [heap EXCEPT ![views[p].ref].data = bytes]

\* ReleaseByteArrayElements(ref, p, mode): mode 0 copies a copy back into the
\* array and frees the view.
HeapAfterRelease(ref, p, mode) ==
    IF views[p].copy /\ mode = 0
    THEN [heap EXCEPT ![ref].data = views[p].data]
    ELSE heap
ViewsAfterRelease(p) == [views EXCEPT ![p].rel = @ + 1]

\* The reference the runtime gives the next new array.
NextRef == CHOOSE r \in FreeRefs : \A q \in FreeRefs : r <= q

\* A native method is entered: a fresh local frame, no calls made yet.
Enter(name, line, args) ==
    /\ pc = "idle"
    /\ pc' = line
    /\ op' = name
    /\ frame' = args
    /\ UNCHANGED <<ret, calls, views, pending>>

\* A native method returns value v of kind k.
Return(k, v) ==
    /\ pc' = "returned"
    /\ ret' = [k |-> k, v |-> v]

\* The Java caller takes the result and goes on.  It keeps the array a save
\* returned (to reopen it) or drops it; every other array of the call is
\* garbage.  A pending exception is thrown in the caller.
JavaResume ==
    /\ pc = "returned"
    /\ pc' = "idle"
    /\ \E keep \in BOOLEAN :
          heap' = [r \in Refs |->
                      IF keep /\ op = "cmsSaveProfileToMem" /\ ret.v = r
                      THEN heap[r] ELSE NoArray]
    /\ op' = "none"
    /\ frame' = NoFrame
    /\ ret' = NoRet
    /\ calls' = <<>>
    /\ views' = <<>>
    /\ pending' = "none"
    /\ UNCHANGED <<profiles, transforms, curves, trip>>

\* ---------------------------------------------- cmsOpenProfileFromFile
cmsOpenProfileFromFile_Enter ==
    /\ LiveRefs = {}
    /\ \E f \in {1}, m \in Strings :
          Enter("cmsOpenProfileFromFile", "L8", [NoFrame EXCEPT !.filename = f, !.mode = m])
    /\ UNCHANGED <<heap, profiles, transforms, curves, trip>>

\* const char *strFilename = env->GetStringUTFChars(filename, 0);
cmsOpenProfileFromFile_L8 ==
    /\ pc = "L8"
    /\ views' = Append(views, NewView("utf", frame.filename, TRUE))
    /\ frame' = [frame EXCEPT !.strFilename = Len(views) + 1]
    /\ calls' = Append(calls, Ev("GetStringUTFChars", frame.filename, 0, Len(views) + 1))
    /\ pc' = "L9"
    /\ UNCHANGED <<op, ret, heap, pending, profiles, transforms, curves, trip>>

\* const char *strMode = env->GetStringUTFChars(mode, 0);
cmsOpenProfileFromFile_L9 ==
    /\ pc = "L9"
    /\ views' = Append(views, NewView("utf", frame.mode, TRUE))
    /\ frame' = [frame EXCEPT !.strMode = Len(views) + 1]
    /\ calls' = Append(calls, Ev("GetStringUTFChars", frame.mode, 0, Len(views) + 1))
    /\ pc' = "L10"
    /\ UNCHANGED <<op, ret, heap, pending, profiles, transforms, curves, trip>>

\* The library opens a profile: null when it cannot, else a fresh address.
LibOpen(p, prof) ==
    IF p = NullPtr
    THEN UNCHANGED <<profiles>>
    ELSE profiles' = [profiles EXCEPT ![p] = prof]

CanOpen == Cardinality(LiveProfiles) < MaxProfiles

\* cmsHPROFILE hProfile = cmsOpenProfileFromFile(strFilename, strMode);
cmsOpenProfileFromFile_L10 ==
    /\ pc = "L10"
    /\ \E p \in {NullPtr} \cup {a \in Fresh : CanOpen}, prof \in FileProfiles :
          /\ LibOpen(p, prof)
          /\ frame' = [frame EXCEPT !.hProfile = p]
          /\ calls' = Append(calls, Ev("cmsOpenProfileFromFile", frame.strFilename, frame.strMode, p))
    /\ pc' = "L11"
    /\ UNCHANGED <<op, ret, heap, views, pending, transforms, curves, trip>>

\* env->ReleaseStringUTFChars(filename, strFilename);
cmsOpenProfileFromFile_L11 ==
    /\ pc = "L11"
    /\ views' = ViewsAfterRelease(frame.strFilename)
    /\ calls' = Append(calls, Ev("ReleaseStringUTFChars", frame.filename, frame.strFilename, 0))
    /\ pc' = "L12"
    /\ UNCHANGED <<op, frame, ret, heap, pending, profiles, transforms, curves, trip>>

\* env->ReleaseStringUTFChars(mode, strMode);
cmsOpenProfileFromFile_L12 ==
    /\ pc = "L12"
    /\ views' = ViewsAfterRelease(frame.strMode)
    /\ calls' = Append(calls, Ev("ReleaseStringUTFChars", frame.mode, frame.strMode, 0))
    /\ pc' = "L14"
    /\ UNCHANGED <<op, frame, ret, heap, pending, profiles, transforms, curves, trip>>

\* return (jlong)hProfile;
cmsOpenProfileFromFile_L14 ==
    /\ pc = "L14"
    /\ Return("jlong", PtrToJlong(frame.hProfile))
    /\ UNCHANGED <<op, frame, calls, heap, views, pending, profiles,
                   transforms, curves, trip>>

\* ------------------------------------------------ cmsOpenProfileFromMem
\* The caller passes the array it holds, or a new one.
cmsOpenProfileFromMem_Enter ==
    /\ \E b \in IF LiveRefs = {} THEN CallerBuffers ELSE {<<>>} :
          LET a == IF LiveRefs = {} THEN NextRef ELSE CHOOSE r \in LiveRefs : TRUE
          IN /\ heap' = IF LiveRefs = {} THEN [heap EXCEPT ![a] = NewArray(b)] ELSE heap
             /\ Enter("cmsOpenProfileFromMem", "L19", [NoFrame EXCEPT !.dataBuffer = a])
    /\ UNCHANGED <<profiles, transforms, curves, trip>>

\* jbyte* data = env->GetByteArrayElements(dataBuffer, NULL);
cmsOpenProfileFromMem_L19 ==
    /\ pc = "L19"
    /\ \E copy \in BOOLEAN :
          views' = Append(views, NewView("bytes", frame.dataBuffer, copy))
    /\ frame' = [frame EXCEPT !.data = Len(views) + 1]
    /\ calls' = Append(calls, Ev("GetByteArrayElements", frame.dataBuffer, 0, Len(views) + 1))
    /\ pc' = "L20"
    /\ UNCHANGED <<op, ret, heap, pending, profiles, transforms, curves, trip>>

\* jsize size = env->GetArrayLength(dataBuffer);
cmsOpenProfileFromMem_L20 ==
    /\ pc = "L20"
    /\ frame' = [frame EXCEPT !.size = Len(heap[frame.dataBuffer].data)]
    /\ calls' = Append(calls, Ev("GetArrayLength", frame.dataBuffer, 0, Len(heap[frame.dataBuffer].data)))
    /\ pc' = "L21"
    /\ UNCHANGED <<op, ret, heap, views, pending, profiles, transforms, curves, trip>>

\* The caller opened profile p from an array saved from a profile it had got
\* a description for: the round trip now follows p.
Reopened(p, from) ==
    IF p # NullPtr /\ from.text # NoText
    THEN [stage |-> "reopened", p |-> p, mem |-> from.mem, text |-> from.text]
    ELSE trip

\* The bytes the library reads from a buffer of the given length.
ReadBuffer(p, length) == SubSeq(ViewData(p), 1, Min(length, Len(ViewData(p))))

\* cmsHPROFILE hProfile = cmsOpenProfileFromMem((void*) data, (cmsUInt32Number) size);
cmsOpenProfileFromMem_L21 ==
    /\ pc = "L21"
    /\ LET bytes == ReadBuffer(frame.data, ToUInt32(frame.size))
           prof == Profile(bytes, Len(bytes), TRUE)
       IN \E p \in {NullPtr} \cup {a \in Fresh : CanOpen /\ Parsable(bytes)} :
             /\ LibOpen(p, prof)
             /\ frame' = [frame EXCEPT !.hProfile = p, !.seen = bytes]
             /\ trip' = Reopened(p, heap[frame.dataBuffer].from)
             /\ calls' = Append(calls, Ev("cmsOpenProfileFromMem", frame.data,
                                          ToUInt32(frame.size), p))
    /\ pc' = "L22"
    /\ UNCHANGED <<op, ret, heap, views, pending, transforms, curves>>

\* env->ReleaseByteArrayElements(dataBuffer, data, 0);
cmsOpenProfileFromMem_L22 ==
    /\ pc = "L22"
    /\ heap' = HeapAfterRelease(frame.dataBuffer, frame.data, ReleaseMode)
    /\ views' = ViewsAfterRelease(frame.data)
    /\ calls' = Append(calls, Ev("ReleaseByteArrayElements", frame.dataBuffer, frame.data, ReleaseMode))
    /\ pc' = "L24"
    /\ UNCHANGED <<op, frame, ret, pending, profiles, transforms, curves, trip>>

\* return (jlong)hProfile;
cmsOpenProfileFromMem_L24 ==
    /\ pc = "L24"
    /\ Return("jlong", PtrToJlong(frame.hProfile))
    /\ UNCHANGED <<op, frame, calls, heap, views, pending, profiles,
                   transforms, curves, trip>>

\* ------------------------------------------------------ cmsCloseProfile
cmsCloseProfile_Enter ==
    /\ LiveRefs = {}
    /\ \E h \in ProfileHandles :
          Enter("cmsCloseProfile", "L29", [NoFrame EXCEPT !.hprofile = h])
    /\ UNCHANGED <<heap, profiles, transforms, curves, trip>>

\* cmsCloseProfile((void *)hprofile);  the library reports failure for a null
\* handle and may report it for a live one (a profile it cannot write out).
cmsCloseProfile_L29 ==
    /\ pc = "L29"
    /\ LET p == JlongToPtr(frame.hprofile)
       IN /\ \E ok \in IF p = NullPtr THEN {FALSE} ELSE BOOLEAN :
                calls' = Append(calls, Ev("cmsCloseProfile", p, 0, IF ok THEN 1 ELSE 0))
          /\ profiles' = IF p \in LiveProfiles
                          THEN [profiles EXCEPT ![p] = NoProfile]
                          ELSE profiles
          /\ trip' = IF p \in LiveProfiles /\ trip.p = p THEN NoTrip ELSE trip
    /\ pc' = "L30"
    /\ UNCHANGED <<op, frame, ret, heap, views, pending, transforms, curves>>

\* The library's own result handed on.
cmsCloseProfile_Result_OfLibrary == calls[Len(calls)].r = 1

\* return true;
cmsCloseProfile_Result == TRUE

cmsCloseProfile_L30 ==
    /\ pc = "L30"
    /\ Return("jboolean", cmsCloseProfile_Result)
    /\ UNCHANGED <<op, frame, calls, heap, views, pending, profiles,
                   transforms, curves, trip>>

\* ----------------------------------------------- cmsGetProfileInfoASCII
cmsGetProfileInfoASCII_Enter ==
    /\ LiveRefs = {}
    /\ \E h \in ProfileHandles :
          Enter("cmsGetProfileInfoASCII", "L35", [NoFrame EXCEPT !.hprofile = h])
    /\ UNCHANGED <<heap, profiles, transforms, curves, trip>>

\* char textBuffer[512];  not initialised: the stack holds whatever it held.
cmsGetProfileInfoASCII_L35 ==
    /\ pc = "L35"
    /\ \E g \in GarbageNul : frame' = [frame EXCEPT !.textBuffer = [nul |-> g, id |-> GarbageId]]
    /\ pc' = "L36"
    /\ UNCHANGED <<op, ret, calls, heap, views, pending, profiles, transforms,
                   curves, trip>>

\* cmsGetProfileInfoASCII((void*)hprofile, cmsInfoDescription,"en","EN",textBuffer,512);
\* The library writes the description, cut to the buffer and terminated, when
\* the profile has the tag; it writes nothing otherwise.
cmsGetProfileInfoASCII_L36 ==
    /\ pc = "L36"
    /\ LET p == JlongToPtr(frame.hprofile)
           has == p \in LiveProfiles /\ HasDescription(profiles[p].bytes)
           d == Description(profiles[p].bytes)
           n == Min(d.len, TextBufferSize - 1)
       IN /\ frame' = IF has THEN [frame EXCEPT !.textBuffer = [nul |-> n, id |-> d.id]]
                       ELSE frame
          /\ calls' = Append(calls, Ev("cmsGetProfileInfoASCII", p, TextBufferSize,
                                       IF has THEN n + 1 ELSE 0))
    /\ pc' = "L37"
    /\ UNCHANGED <<op, ret, heap, views, pending, profiles, transforms, curves, trip>>

\* The caller notes the description it got for profile p, when p is a
\* profile the library can describe: a round trip starts with p.  (The
\* description of the profile a round trip has reopened ends that trip's
\* checks and starts none.)
Described(p, str) ==
    IF /\ p \in LiveProfiles
       /\ ValidICC(profiles[p].bytes)
       /\ ~(trip.stage = "reopened" /\ trip.p = p)
    THEN [stage |-> "described", p |-> p, mem |-> profiles[p].mem, text |-> str]
    ELSE trip

\* return env->NewStringUTF(textBuffer);  the buffer holds a NUL.
cmsGetProfileInfoASCII_L37 ==
    /\ pc = "L37"
    /\ frame.textBuffer.nul < TextBufferSize
    /\ LET str == [id |-> frame.textBuffer.id, len |-> frame.textBuffer.nul]
       IN /\ Return("jstring", str)
          /\ trip' = Described(JlongToPtr(frame.hprofile), str)
          /\ calls' = Append(calls, Ev("NewStringUTF", frame.textBuffer.nul, 0, 0))
    /\ UNCHANGED <<op, frame, heap, views, pending, profiles, transforms, curves>>

\* return env->NewStringUTF(textBuffer);  the buffer holds no NUL: the runtime
\* reads past its end, until a NUL beyond it or until the process faults.
cmsGetProfileInfoASCII_L37_Overread ==
    /\ pc = "L37"
    /\ frame.textBuffer.nul >= TextBufferSize
    /\ \/ /\ pc' = "crashed"
          /\ UNCHANGED <<ret, calls, trip>>
       \/ \E extra \in {0, 9} :
             LET str == [id |-> frame.textBuffer.id, len |-> TextBufferSize + extra]
             IN /\ Return("jstring", str)
                /\ trip' = Described(JlongToPtr(frame.hprofile), str)
                /\ calls' = Append(calls, Ev("NewStringUTF", TextBufferSize + extra, 0, 0))
    /\ UNCHANGED <<op, frame, heap, views, pending, profiles, transforms, curves>>

\* -------------------------------------------------- cmsSaveProfileToMem
cmsSaveProfileToMem_Enter ==
    /\ LiveRefs = {}
    /\ \E h \in ProfileHandles :
          Enter("cmsSaveProfileToMem", "L44", [NoFrame EXCEPT !.hprofile = h])
    /\ UNCHANGED <<heap, profiles, transforms, curves, trip>>

\* cmsUInt32Number size = 0;
cmsSaveProfileToMem_L44 ==
    /\ pc = "L44"
    /\ frame' = [frame EXCEPT !.size = 0]
    /\ pc' = "L45"
    /\ UNCHANGED <<op, ret, calls, heap, views, pending, profiles, transforms,
                   curves, trip>>

\* What the library's save reports: 0 (failure) for a handle that is not a
\* live profile, else failure or the profile's serialised size.
SaveReports(p) == IF p \in LiveProfiles THEN {0, profiles[p].size} ELSE {0}

\* The query's result not looked at.
cmsSaveProfileToMem_AfterQuery_Unchecked(reported) == "L50"

\* Where the size query's result leads: line 46 on failure, line 50 otherwise.
cmsSaveProfileToMem_AfterQuery(reported) == IF reported = 0 THEN "L46" ELSE "L50"

\* if (!cmsSaveProfileToMem((cmsHPROFILE) hprofile, NULL, &size))
cmsSaveProfileToMem_L45 ==
    /\ pc = "L45"
    /\ \E reported \in SaveReports(JlongToPtr(frame.hprofile)) :
          /\ frame' = [frame EXCEPT !.size = reported]
          /\ calls' = Append(calls, Ev("cmsSaveProfileToMem", JlongToPtr(frame.hprofile),
                                       NullPtr, reported))
          /\ pc' = cmsSaveProfileToMem_AfterQuery(reported)
    /\ UNCHANGED <<op, ret, heap, views, pending, profiles, transforms, curves, trip>>

Zeros(n) == [i \in 1 .. n |-> 0]

\* return env->NewByteArray(0);
cmsSaveProfileToMem_L46 ==
    /\ pc = "L46"
    /\ heap' = [heap EXCEPT ![NextRef] =
                   NewArray(Zeros(EmptyLength))]
    /\ calls' = Append(calls, Ev("NewByteArray", EmptyLength, 0, NextRef))
    /\ Return("jbyteArray", NextRef)
    /\ UNCHANGED <<op, frame, views, pending, profiles, transforms, curves, trip>>

\* jbyteArray dataBuffer = env->NewByteArray((jsize) size);
\* A negative length makes the runtime throw and return NULL.
cmsSaveProfileToMem_L50 ==
    /\ pc = "L50"
    /\ LET n == ToJsize(frame.size)
       IN IF n >= 0
          THEN /\ heap' = [heap EXCEPT ![NextRef] = NewArray(Zeros(n))]
               /\ frame' = [frame EXCEPT !.dataBuffer = NextRef]
               /\ calls' = Append(calls, Ev("NewByteArray", n, 0, NextRef))
               /\ pending' = pending
          ELSE /\ heap' = heap
               /\ frame' = [frame EXCEPT !.dataBuffer = NullRef]
               /\ calls' = Append(calls, Ev("NewByteArray", n, 0, NullRef))
               /\ pending' = "NegativeArraySizeException"
    /\ pc' = "L51"
    /\ UNCHANGED <<op, ret, views, profiles, transforms, curves, trip>>

\* jbyte* data = env->GetByteArrayElements(dataBuffer, NULL);
cmsSaveProfileToMem_L51 ==
    /\ pc = "L51"
    /\ frame.dataBuffer # NullRef
    /\ \E copy \in BOOLEAN :
          views' = Append(views, NewView("bytes", frame.dataBuffer, copy))
    /\ frame' = [frame EXCEPT !.data = Len(views) + 1]
    /\ calls' = Append(calls, Ev("GetByteArrayElements", frame.dataBuffer, 0, Len(views) + 1))
    /\ pc' = "L52"
    /\ UNCHANGED <<op, ret, heap, pending, profiles, transforms, curves, trip>>

\* The same statement with dataBuffer NULL: undefined; the runtime faults or
\* hands back NULL.
cmsSaveProfileToMem_L51_Null ==
    /\ pc = "L51"
    /\ frame.dataBuffer = NullRef
    /\ \/ /\ pc' = "crashed"
          /\ UNCHANGED <<frame, calls>>
       \/ /\ pc' = "L52"
          /\ frame' = [frame EXCEPT !.data = NullPtr]
          /\ calls' = Append(calls, Ev("GetByteArrayElements", NullRef, 0, NullPtr))
    /\ UNCHANGED <<op, ret, heap, views, pending, profiles, transforms, curves, trip>>

\* if (!cmsSaveProfileToMem((cmsHPROFILE) hprofile, (void *)data, &size))
\* The library serialises the profile into the destination, or fails.
cmsSaveProfileToMem_L52 ==
    /\ pc = "L52"
    /\ frame.data # NullPtr
    /\ LET p == JlongToPtr(frame.hprofile)
       IN \E reported \in SaveReports(p) :
             /\ calls' = Append(calls, Ev("cmsSaveProfileToMem", p, frame.data, reported))
             /\ IF reported # 0
                THEN /\ views' = ViewsAfterWrite(frame.data, profiles[p].bytes)
                     /\ heap' = HeapAfterWrite(frame.data, profiles[p].bytes)
                     /\ pc' = "L57"
                ELSE /\ UNCHANGED <<views, heap>>
                     /\ pc' = "L53"
    /\ UNCHANGED <<op, frame, ret, pending, profiles, transforms, curves, trip>>

\* The same statement with data NULL: the library takes it for a size query.
cmsSaveProfileToMem_L52_Null ==
    /\ pc = "L52"
    /\ frame.data = NullPtr
    /\ LET p == JlongToPtr(frame.hprofile)
       IN \E reported \in SaveReports(p) :
             /\ calls' = Append(calls, Ev("cmsSaveProfileToMem", p, NullPtr, reported))
             /\ pc' = IF reported # 0 THEN "L57" ELSE "L53"
    /\ UNCHANGED <<op, frame, ret, heap, views, pending, profiles, transforms,
                   curves, trip>>

\* delete dataBuffer;  dataBuffer is a JNI local reference, not memory from
\* new: undefined.  The allocator aborts the process, or the call comes back
\* and leaves the reference dangling.  (delete of NULL does nothing.)
cmsSaveProfileToMem_L53 ==
    /\ pc = "L53"
    /\ \/ /\ frame.dataBuffer # NullRef
          /\ pc' = "crashed"
          /\ UNCHANGED <<frame, calls>>
       \/ /\ pc' = "L54"
          /\ frame' = [frame EXCEPT !.deleted = (frame.dataBuffer # NullRef)]
          /\ calls' = Append(calls, Ev("delete", frame.dataBuffer, 0, 0))
    /\ UNCHANGED <<op, ret, heap, views, pending, profiles, transforms, curves, trip>>

\* env->ReleaseByteArrayElements(dataBuffer, data, 0);  through a dangling (or
\* NULL) reference: the runtime still resolves it and releases the view, or
\* does not find the array and releases nothing, or faults.
cmsSaveProfileToMem_L54 ==
    /\ pc = "L54"
    /\ \/ /\ pc' = "crashed"
          /\ UNCHANGED <<heap, views, calls>>
       \/ /\ pc' = "L55"
          /\ calls' = Append(calls, Ev("ReleaseByteArrayElements", frame.dataBuffer,
                                       frame.data, ReleaseMode))
          /\ \/ /\ frame.data # NullPtr
                /\ heap' = HeapAfterRelease(frame.dataBuffer, frame.data, ReleaseMode)
                /\ views' = ViewsAfterRelease(frame.data)
             \/ UNCHANGED <<heap, views>>
    /\ UNCHANGED <<op, frame, ret, pending, profiles, transforms, curves, trip>>

\* return env->NewByteArray(0);  dataBuffer's local reference dies with the frame.
cmsSaveProfileToMem_L55 ==
    /\ pc = "L55"
    /\ LET dropped == IF frame.dataBuffer = NullRef THEN heap
                      ELSE [heap EXCEPT ![frame.dataBuffer] = NoArray]
           r == NextRef
       IN /\ heap' = [dropped EXCEPT ![r] = NewArray(Zeros(EmptyLength))]
          /\ calls' = Append(calls, Ev("NewByteArray", EmptyLength, 0, r))
          /\ Return("jbyteArray", r)
    /\ UNCHANGED <<op, frame, views, pending, profiles, transforms, curves, trip>>

\* env->ReleaseByteArrayElements(dataBuffer, data, 0);
cmsSaveProfileToMem_L57 ==
    /\ pc = "L57"
    /\ frame.dataBuffer # NullRef
    /\ heap' = HeapAfterRelease(frame.dataBuffer, frame.data, ReleaseMode)
    /\ views' = ViewsAfterRelease(frame.data)
    /\ calls' = Append(calls, Ev("ReleaseByteArrayElements", frame.dataBuffer, frame.data,
                                 ReleaseMode))
    /\ pc' = "L59"
    /\ UNCHANGED <<op, frame, ret, pending, profiles, transforms, curves, trip>>

\* The same statement with dataBuffer and data NULL: undefined; the runtime
\* faults or ignores the call.
cmsSaveProfileToMem_L57_Null ==
    /\ pc = "L57"
    /\ frame.dataBuffer = NullRef
    /\ \/ /\ pc' = "crashed"
          /\ UNCHANGED calls
       \/ /\ pc' = "L59"
          /\ calls' = Append(calls, Ev("ReleaseByteArrayElements", NullRef, NullPtr,
                                       ReleaseMode))
    /\ UNCHANGED <<op, frame, ret, heap, views, pending, profiles, transforms,
                   curves, trip>>

\* The description the caller has got for profile p, if it has.
TextOf(p) == IF trip.stage = "described" /\ trip.p = p THEN trip.text ELSE NoText

\* return dataBuffer;  the array now holds what was saved from the profile.
cmsSaveProfileToMem_L59 ==
    /\ pc = "L59"
    /\ heap' = IF frame.dataBuffer = NullRef THEN heap
               ELSE [heap EXCEPT ![frame.dataBuffer].from =
                              SourceOf(profiles[JlongToPtr(frame.hprofile)],
                                       TextOf(JlongToPtr(frame.hprofile)))]
    /\ Return("jbyteArray", frame.dataBuffer)
    /\ UNCHANGED <<op, frame, calls, views, pending, profiles, transforms,
                   curves, trip>>

\* --------------------------------------------------- cmsCreateTransform
\* inputType, outputType, intent, flags as the caller passes them.
TransformParams == { <<0, 1, 0, 0>>, <<1, 1, 1, 0>> }

cmsCreateTransform_Enter ==
    /\ LiveRefs = {}
    /\ \E hi \in ProfileHandles, ho \in ProfileHandles, t \in TransformParams :
          Enter("cmsCreateTransform", "L65",
                [NoFrame EXCEPT !.hInputProfile = hi, !.inputType = t[1],
                                !.hOutputProfile = ho, !.outputType = t[2],
                                !.intent = t[3], !.flags = t[4]])
    /\ UNCHANGED <<heap, profiles, transforms, curves, trip>>

\* The library builds a pipeline between two live profiles whose formats
\* agree, when it can.
CanBuild(pin, pout, inputType, outputType) ==
    /\ pin \in LiveProfiles
    /\ pout \in LiveProfiles
    /\ Cardinality(transforms) < MaxTransforms
    /\ ToUInt32(inputType) = ToUInt32(outputType)

\* cmsHTRANSFORM hTransform = cmsCreateTransform((void*)hInputProfile, inputType,
\*                               (void*)hOutputProfile, outputType, intent, flags);
cmsCreateTransform_L65 ==
    /\ pc = "L65"
    /\ LET pin == JlongToPtr(frame.hInputProfile)
           pout == JlongToPtr(frame.hOutputProfile)
       IN \E t \in {NullPtr} \cup {a \in Fresh : CanBuild(pin, pout, frame.inputType,
                                                        frame.outputType)} :
             /\ transforms' = IF t = NullPtr THEN transforms ELSE transforms \cup {t}
             /\ frame' = [frame EXCEPT !.hTransform = t]
             /\ calls' = Append(calls, Ev("cmsCreateTransform", pin, pout, t))
    /\ pc' = "L66"
    /\ UNCHANGED <<op, ret, heap, views, pending, profiles, curves, trip>>

\* return (jlong)hTransform;
cmsCreateTransform_L66 ==
    /\ pc = "L66"
    /\ Return("jlong", PtrToJlong(frame.hTransform))
    /\ UNCHANGED <<op, frame, calls, heap, views, pending, profiles,
                   transforms, curves, trip>>

\* --------------------------------------------------- cmsDeleteTransform
cmsDeleteTransform_Enter ==
    /\ LiveRefs = {}
    /\ \E h \in TransformHandles :
          Enter("cmsDeleteTransform", "L71", [NoFrame EXCEPT !.hTransform = h])
    /\ UNCHANGED <<heap, profiles, transforms, curves, trip>>

\* cmsDeleteTransform((void*)hTransform);
cmsDeleteTransform_L71 ==
    /\ pc = "L71"
    /\ transforms' = transforms \ {JlongToPtr(frame.hTransform)}
    /\ calls' = Append(calls, Ev("cmsDeleteTransform", JlongToPtr(frame.hTransform), 0, 0))
    /\ pc' = "L72"
    /\ UNCHANGED <<op, frame, ret, heap, views, pending, profiles, curves, trip>>

\* return;
cmsDeleteTransform_L72 ==
    /\ pc = "L72"
    /\ Return("void", 0)
    /\ UNCHANGED <<op, frame, calls, heap, views, pending, profiles,
                   transforms, curves, trip>>

\* ------------------------------------------------------- cmsDoTransform
\* The caller sizes both arrays for the pixel count (the binding checks
\* nothing); input and output may be the same array.
TransformBuffers == { <<0>>, <<1, 2>> }

cmsDoTransform_Enter ==
    /\ LiveRefs = {}
    /\ LiveProfiles = {}
    /\ \E h \in TransformHandles, bi \in TransformBuffers, bo \in TransformBuffers,
          same \in BOOLEAN :
          \E n \in 0 .. Min(Len(bi), Len(bo)) :
             /\ same => bi = bo
             /\ heap' = IF same THEN [heap EXCEPT ![1] = NewArray(bi)]
                        ELSE [heap EXCEPT ![1] = NewArray(bi), ![2] = NewArray(bo)]
             /\ Enter("cmsDoTransform", "L77",
                      [NoFrame EXCEPT !.hTransform = h, !.inputBuffer = 1, !.outputBuffer = IF same THEN 1 ELSE 2,
                                      !.size = n, !.before = bi])
    /\ UNCHANGED <<profiles, transforms, curves, trip>>

\* jbyte* input = env->GetByteArrayElements(inputBuffer, NULL);
cmsDoTransform_L77 ==
    /\ pc = "L77"
    /\ \E copy \in BOOLEAN :
          views' = Append(views, NewView("bytes", frame.inputBuffer, copy))
    /\ frame' = [frame EXCEPT !.input = Len(views) + 1]
    /\ calls' = Append(calls, Ev("GetByteArrayElements", frame.inputBuffer, 0, Len(views) + 1))
    /\ pc' = "L78"
    /\ UNCHANGED <<op, ret, heap, pending, profiles, transforms, curves, trip>>

\* jbyte* output = env->GetByteArrayElements(outputBuffer, NULL);
\* A runtime either pins an array or copies it: a second view of the array
\* that is already viewed is of the same kind.
cmsDoTransform_L78 ==
    /\ pc = "L78"
    /\ \E copy \in BOOLEAN :
          /\ frame.outputBuffer = frame.inputBuffer => copy = views[frame.input].copy
          /\ views' = Append(views, NewView("bytes", frame.outputBuffer, copy))
    /\ frame' = [frame EXCEPT !.output = Len(views) + 1]
    /\ calls' = Append(calls, Ev("GetByteArrayElements", frame.outputBuffer, 0, Len(views) + 1))
    /\ pc' = "L79"
    /\ UNCHANGED <<op, ret, heap, pending, profiles, transforms, curves, trip>>

\* The output buffer after the library converted n samples of the input.
Transformed(in, out, n) ==
    [i \in 1 .. Len(out) |-> IF i <= n THEN TransformByte(in[i]) ELSE out[i]]

\* cmsDoTransform((void*)hTransform, (const void*)input, (void*)output, size);
cmsDoTransform_L79 ==
    /\ pc = "L79"
    /\ LET t == JlongToPtr(frame.hTransform)
           result == IF t \in transforms
                     THEN Transformed(ViewData(frame.input), ViewData(frame.output),
                                      ToUInt32(frame.size))
                     ELSE ViewData(frame.output)
           written == HeapAfterWrite(frame.output, result)
       IN /\ views' = ViewsAfterWrite(frame.output, result)
          /\ heap' = written
          /\ frame' = [frame EXCEPT !.wrote = result]
          /\ calls' = Append(calls, Ev("cmsDoTransform", t, ToUInt32(frame.size), 0))
    /\ pc' = "L80"
    /\ UNCHANGED <<op, ret, pending, profiles, transforms, curves, trip>>

cmsDoTransform_ReleaseOrder_OutputFirst == <<"output", "input">>

\* The order in which lines 80 and 81 release the two views.
cmsDoTransform_ReleaseOrder == <<"input", "output">>

ReleaseArg(which) ==
    IF which = "input" THEN [ref |-> frame.inputBuffer, ptr |-> frame.input]
    ELSE [ref |-> frame.outputBuffer, ptr |-> frame.output]

\* env->ReleaseByteArrayElements(inputBuffer, input, 0);
cmsDoTransform_L80 ==
    /\ pc = "L80"
    /\ LET x == ReleaseArg(cmsDoTransform_ReleaseOrder[1])
       IN /\ heap' = HeapAfterRelease(x.ref, x.ptr, ReleaseMode)
          /\ views' = ViewsAfterRelease(x.ptr)
          /\ calls' = Append(calls, Ev("ReleaseByteArrayElements", x.ref, x.ptr,
                                       ReleaseMode))
    /\ pc' = "L81"
    /\ UNCHANGED <<op, frame, ret, pending, profiles, transforms, curves, trip>>

\* env->ReleaseByteArrayElements(outputBuffer, output, 0);
cmsDoTransform_L81 ==
    /\ pc = "L81"
    /\ LET x == ReleaseArg(cmsDoTransform_ReleaseOrder[2])
       IN /\ heap' = HeapAfterRelease(x.ref, x.ptr, ReleaseMode)
          /\ views' = ViewsAfterRelease(x.ptr)
          /\ calls' = Append(calls, Ev("ReleaseByteArrayElements", x.ref, x.ptr,
                                       ReleaseMode))
    /\ pc' = "L82"
    /\ UNCHANGED <<op, frame, ret, pending, profiles, transforms, curves, trip>>

\* return;
cmsDoTransform_L82 ==
    /\ pc = "L82"
    /\ Return("void", 0)
    /\ UNCHANGED <<op, frame, calls, heap, views, pending, profiles,
                   transforms, curves, trip>>

\* ------------------------------------------------ cmsCreate_sRGBProfile
cmsCreate_sRGBProfile_Enter ==
    /\ LiveRefs = {}
    /\ Enter("cmsCreate_sRGBProfile", "L87", NoFrame)
    /\ UNCHANGED <<heap, profiles, transforms, curves, trip>>

\* cmsHPROFILE hProfile = cmsCreate_sRGBProfile();
cmsCreate_sRGBProfile_L87 ==
    /\ pc = "L87"
    /\ \E p \in {NullPtr} \cup {a \in Fresh : CanOpen} :
          /\ LibOpen(p, sRGBProfile)
          /\ frame' = [frame EXCEPT !.hProfile = p]
          /\ calls' = Append(calls, Ev("cmsCreate_sRGBProfile", 0, 0, p))
    /\ pc' = "L88"
    /\ UNCHANGED <<op, ret, heap, views, pending, transforms, curves, trip>>

\* return (jlong) hProfile;
cmsCreate_sRGBProfile_L88 ==
    /\ pc = "L88"
    /\ Return("jlong", PtrToJlong(frame.hProfile))
    /\ UNCHANGED <<op, frame, calls, heap, views, pending, profiles,
                   transforms, curves, trip>>

\* ------------------------------------------------- cmsCreateGrayProfile
\* Gamma values the caller passes.
Gammas == {0, 2}

cmsCreateGrayProfile_Enter ==
    /\ LiveRefs = {}
    /\ \E g \in Gammas :
          Enter("cmsCreateGrayProfile", "L94", [NoFrame EXCEPT !.gamma = g])
    /\ UNCHANGED <<heap, profiles, transforms, curves, trip>>

\* cmsToneCurve* GammaCurve = cmsBuildGamma(0, (cmsFloat64Number)gamma);
cmsCreateGrayProfile_L94 ==
    /\ pc = "L94"
    /\ \E c \in {NullPtr} \cup Fresh :
          /\ curves' = IF c = NullPtr THEN curves ELSE curves \cup {c}
          /\ frame' = [frame EXCEPT !.GammaCurve = c]
          /\ calls' = Append(calls, Ev("cmsBuildGamma", GammaType, frame.gamma, c))
    /\ pc' = "L95"
    /\ UNCHANGED <<op, ret, heap, views, pending, profiles, transforms, trip>>

\* cmsHPROFILE hProfile = cmsCreateGrayProfile(cmsD50_xyY(), GammaCurve);
cmsCreateGrayProfile_L95 ==
    /\ pc = "L95"
    /\ \E p \in {NullPtr} \cup {a \in Fresh : CanOpen} :
          /\ LibOpen(p, GrayProfile(frame.gamma))
          /\ frame' = [frame EXCEPT !.hProfile = p]
          /\ calls' = Append(calls, Ev("cmsCreateGrayProfile", 0, frame.GammaCurve, p))
    /\ pc' = "L96"
    /\ UNCHANGED <<op, ret, heap, views, pending, transforms, curves, trip>>

\* The curve freed only when the constructor gave a profile.
cmsCreateGrayProfile_L96_OnlyOnSuccess ==
    /\ pc = "L96"
    /\ IF frame.hProfile # NullPtr
       THEN /\ curves' = curves \ {frame.GammaCurve}
            /\ calls' = Append(calls, Ev("cmsFreeToneCurve", frame.GammaCurve, 0, 0))
       ELSE UNCHANGED <<curves, trip, calls>>
    /\ pc' = "L97"
    /\ UNCHANGED <<op, frame, ret, heap, views, pending, profiles, transforms, trip>>

\* cmsFreeToneCurve(GammaCurve);
cmsCreateGrayProfile_L96 ==
    /\ pc = "L96"
    /\ curves' = curves \ {frame.GammaCurve}
    /\ calls' = Append(calls, Ev("cmsFreeToneCurve", frame.GammaCurve, 0, 0))
    /\ pc' = "L97"
    /\ UNCHANGED <<op, frame, ret, heap, views, pending, profiles, transforms, trip>>

\* return (jlong) hProfile;
cmsCreateGrayProfile_L97 ==
    /\ pc = "L97"
    /\ Return("jlong", PtrToJlong(frame.hProfile))
    /\ UNCHANGED <<op, frame, calls, heap, views, pending, profiles,
                   transforms, curves, trip>>

\* ---------------------------------------------------------- the program
Next ==
    \/ JavaResume
    \/ cmsOpenProfileFromFile_Enter
    \/ cmsOpenProfileFromFile_L8
    \/ cmsOpenProfileFromFile_L9
    \/ cmsOpenProfileFromFile_L10
    \/ cmsOpenProfileFromFile_L11
    \/ cmsOpenProfileFromFile_L12
    \/ cmsOpenProfileFromFile_L14
    \/ cmsOpenProfileFromMem_Enter
    \/ cmsOpenProfileFromMem_L19
    \/ cmsOpenProfileFromMem_L20
    \/ cmsOpenProfileFromMem_L21
    \/ cmsOpenProfileFromMem_L22
    \/ cmsOpenProfileFromMem_L24
    \/ cmsCloseProfile_Enter
    \/ cmsCloseProfile_L29
    \/ cmsCloseProfile_L30
    \/ cmsGetProfileInfoASCII_Enter
    \/ cmsGetProfileInfoASCII_L35
    \/ cmsGetProfileInfoASCII_L36
    \/ cmsGetProfileInfoASCII_L37
    \/ cmsGetProfileInfoASCII_L37_Overread
    \/ cmsSaveProfileToMem_Enter
    \/ cmsSaveProfileToMem_L44
    \/ cmsSaveProfileToMem_L45
    \/ cmsSaveProfileToMem_L46
    \/ cmsSaveProfileToMem_L50
    \/ cmsSaveProfileToMem_L51
    \/ cmsSaveProfileToMem_L51_Null
    \/ cmsSaveProfileToMem_L52
    \/ cmsSaveProfileToMem_L52_Null
    \/ cmsSaveProfileToMem_L53
    \/ cmsSaveProfileToMem_L54
    \/ cmsSaveProfileToMem_L55
    \/ cmsSaveProfileToMem_L57
    \/ cmsSaveProfileToMem_L57_Null
    \/ cmsSaveProfileToMem_L59
    \/ cmsCreateTransform_Enter
    \/ cmsCreateTransform_L65
    \/ cmsCreateTransform_L66
    \/ cmsDeleteTransform_Enter
    \/ cmsDeleteTransform_L71
    \/ cmsDeleteTransform_L72
    \/ cmsDoTransform_Enter
    \/ cmsDoTransform_L77
    \/ cmsDoTransform_L78
    \/ cmsDoTransform_L79
    \/ cmsDoTransform_L80
    \/ cmsDoTransform_L81
    \/ cmsDoTransform_L82
    \/ cmsCreate_sRGBProfile_Enter
    \/ cmsCreate_sRGBProfile_L87
    \/ cmsCreate_sRGBProfile_L88
    \/ cmsCreateGrayProfile_Enter
    \/ cmsCreateGrayProfile_L94
    \/ cmsCreateGrayProfile_L95
    \/ cmsCreateGrayProfile_L96
    \/ cmsCreateGrayProfile_L97

Spec == Init /\ [][Next]_vars

\* ------------------------------------------------------------ properties
Returned(name) == pc = "returned" /\ op = name

\* The same bit pattern: jlong j and native pointer p denote the same handle.
SameHandle(j, p) ==
    /\ j \in Jlongs
    /\ p \in 0 .. (Pow2(HandleBits) - 1)
    /\ (j - p) % Pow2(HandleBits) = 0

\* Positions in calls of the calls to f.
CallsTo(f) == {i \in 1 .. Len(calls) : calls[i].f = f}

\* The save's fill call (a call with a destination) failed.
FillFailed ==
    \E i \in CallsTo("cmsSaveProfileToMem") : calls[i].b # NullPtr /\ calls[i].r = 0

\* C1: when a native method returns, every native buffer view it acquired
\* has been released exactly once.
C1_ViewsReleasedOnce ==
    pc = "returned" => \A i \in 1 .. Len(views) : views[i].rel = 1

\* C2: when save-to-memory returns after a failed fill call, it returns a
\* non-null array of length zero, the destination's view was released exactly
\* once, and no call uses the destination buffer after it was disposed.
C2_FillFailureDisposes ==
    (Returned("cmsSaveProfileToMem") /\ FillFailed) =>
        /\ ret.v # NullRef
        /\ Len(heap[ret.v].data) = 0
        /\ \A i \in 1 .. Len(views) : views[i].rel = 1
        /\ \A i \in CallsTo("delete") : \A j \in 1 .. Len(calls) :
              j > i => ~(calls[j].f = "ReleaseByteArrayElements" /\ calls[j].a = calls[i].a)

\* C3: once the size query of save-to-memory failed, no view is acquired, no
\* destination is allocated, no second library call is made; the only further
\* call is NewByteArray(0), whose non-null empty array is returned.
C3_QueryFailureReturnsEmpty ==
    (op = "cmsSaveProfileToMem" /\ calls # <<>> /\ calls[1].r = 0) =>
        /\ calls[1].f = "cmsSaveProfileToMem" /\ calls[1].b = NullPtr
        /\ views = <<>>
        /\ Len(calls) <= 2
        /\ Len(calls) = 2 => (calls[2].f = "NewByteArray" /\ calls[2].a = 0)
        /\ pc \in {"L46", "returned"}
        /\ pc = "returned" =>
              /\ Len(calls) = 2
              /\ ret.k = "jbyteArray"
              /\ ret.v # NullRef
              /\ ret.v = calls[2].r
              /\ heap[ret.v].live
              /\ Len(heap[ret.v].data) = 0
              /\ Cardinality(LiveRefs) = 1

C3_Witness ==
    /\ Returned("cmsSaveProfileToMem")
    /\ JlongToPtr(frame.hprofile) \in LiveProfiles
    /\ calls[1].r = 0

\* C4: save-to-memory queries the size with a null destination first,
\* allocates the destination only after that call succeeded and with exactly
\* the size it reported, fills only after the allocation, and on success
\* returns the destination, whose length is the reported size.
C4_QueryThenFill ==
    op = "cmsSaveProfileToMem" =>
        /\ calls # <<>> =>
              /\ calls[1].f = "cmsSaveProfileToMem"
              /\ calls[1].b = NullPtr
        /\ \A i \in CallsTo("NewByteArray") :
              \/ calls[1].r = 0 /\ calls[i].a = 0
              \/ i > 2 /\ calls[i].a = 0
              \/ /\ i = 2 /\ calls[1].r # 0
                 /\ calls[i].a = calls[1].r
                 /\ calls[i].r # NullRef
        /\ \A j \in CallsTo("cmsSaveProfileToMem") :
              j > 1 => /\ calls[2].f = "NewByteArray"
                       /\ calls[j].b # NullPtr
                       /\ views[calls[j].b].ref = calls[2].r
        /\ (pc = "returned" /\ calls[1].r # 0 /\ ~FillFailed) =>
              /\ ret.v = calls[2].r
              /\ ret.v # NullRef
              /\ Len(heap[ret.v].data) = calls[1].r

\* C5: a profile opened from the bytes saved from a valid profile has the
\* description text that profile had: get-description returns for it what it
\* returned for the original.  Step by step: when the saved array is opened
\* from memory, the library is handed a profile with the same description (no
\* byte added, dropped or altered) and the profile it yields has it; and
\* get-description of a valid profile returns its description cut to the
\* buffer, a function of the profile's description alone.
C5_RoundTripKeepsDescription ==
    /\ (Returned("cmsGetProfileInfoASCII") /\ trip.stage = "reopened"
           /\ trip.p = JlongToPtr(frame.hprofile)) => ret.v = trip.text
    /\ (op = "cmsOpenProfileFromMem" /\ pc \in {"L22", "L24", "returned"}
           /\ ValidICC(heap[frame.dataBuffer].from.bytes)) =>
          /\ ValidICC(frame.seen)
          /\ Description(frame.seen) = Description(heap[frame.dataBuffer].from.bytes)
          /\ frame.hProfile # NullPtr =>
                Description(profiles[frame.hProfile].bytes)
                   = Description(heap[frame.dataBuffer].from.bytes)
    /\ (Returned("cmsGetProfileInfoASCII") /\ JlongToPtr(frame.hprofile) \in LiveProfiles
           /\ ValidICC(profiles[JlongToPtr(frame.hprofile)].bytes)) =>
          LET d == Description(profiles[JlongToPtr(frame.hprofile)].bytes)
          IN ret.v = [id |-> d.id, len |-> Min(d.len, TextBufferSize - 1)]

\* The original was opened from memory and described; its saved bytes were
\* reopened, and the copy is described in turn.
C5_Witness ==
    /\ Returned("cmsGetProfileInfoASCII")
    /\ trip.stage = "reopened"
    /\ trip.p = JlongToPtr(frame.hprofile)
    /\ trip.mem
    /\ trip.text.len = TextBufferSize - 1

\* C6: get-description hands the runtime a string terminated inside the
\* 512-byte buffer and returns at most 511 bytes.
C6_DescriptionFitsBuffer ==
    op = "cmsGetProfileInfoASCII" =>
        /\ pc = "L37" => frame.textBuffer.nul <= TextBufferSize - 1
        /\ pc = "returned" => ret.v.len <= TextBufferSize - 1

\* C7: create-gray builds one tone curve (type 0, the given gamma), passes it
\* to the gray-profile constructor, frees it once after the constructor and
\* before returning, also when the constructor returns null; the curve is not
\* what the caller gets, and no curve outlives the call.
C7_CurveBuiltPassedFreed ==
    /\ pc \in {"idle", "returned"} => curves = {}
    /\ Returned("cmsCreateGrayProfile") =>
          /\ Len(calls) = 3
          /\ calls[1] = Ev("cmsBuildGamma", 0, frame.gamma, frame.GammaCurve)
          /\ calls[2] = Ev("cmsCreateGrayProfile", 0, frame.GammaCurve, frame.hProfile)
          /\ calls[3] = Ev("cmsFreeToneCurve", frame.GammaCurve, 0, 0)
          /\ SameHandle(ret.v, frame.hProfile)
          /\ frame.GammaCurve # NullPtr => ~SameHandle(ret.v, frame.GammaCurve)

C7_Witness ==
    /\ Returned("cmsCreateGrayProfile")
    /\ frame.GammaCurve # NullPtr
    /\ frame.hProfile = NullPtr

HandleReturning ==
    {"cmsOpenProfileFromFile", "cmsOpenProfileFromMem", "cmsCreate_sRGBProfile",
     "cmsCreateGrayProfile", "cmsCreateTransform"}
ProfileTaking == {"cmsCloseProfile", "cmsGetProfileInfoASCII", "cmsSaveProfileToMem"}
TransformTaking == {"cmsDeleteTransform", "cmsDoTransform"}

\* C8: every handle argument reaches the library as the value the caller
\* passed, and every handle returned is the value the library returned: null
\* exactly when the library returned null, with no exception pending.
C8_HandlesCarried ==
    /\ \A i \in 1 .. Len(calls) :
          /\ calls[i].f \in ProfileTaking => SameHandle(frame.hprofile, calls[i].a)
          /\ calls[i].f \in TransformTaking => SameHandle(frame.hTransform, calls[i].a)
          /\ calls[i].f = "cmsCreateTransform" =>
                /\ SameHandle(frame.hInputProfile, calls[i].a)
                /\ SameHandle(frame.hOutputProfile, calls[i].b)
    /\ (pc = "returned" /\ op \in HandleReturning) =>
          /\ ret.k = "jlong"
          /\ \E i \in CallsTo(op) :
                /\ SameHandle(ret.v, calls[i].r)
                /\ ret.v = 0 <=> calls[i].r = NullPtr
          /\ pending = "none"

C8_Witness ==
    /\ Returned("cmsCreateTransform")
    /\ frame.hInputProfile < 0
    /\ frame.hOutputProfile > 0
    /\ ret.v < 0

\* C9: close-profile calls the library's close once, with the given handle,
\* and returns true whatever that call returned.
C9_CloseReturnsTrue ==
    Returned("cmsCloseProfile") =>
        /\ ret = [k |-> "jboolean", v |-> TRUE]
        /\ Len(calls) = 1
        /\ calls[1].f = "cmsCloseProfile"
        /\ SameHandle(frame.hprofile, calls[1].a)

C9_Witness ==
    /\ Returned("cmsCloseProfile")
    /\ frame.hprofile # 0
    /\ calls[1].r = 0

=============================================================================
